---------------------------- MODULE Spec2Model ----------------------------
(***************************************************************************)
(* Model of src/prolog_loan_system.py: PrologLoanClassifier (the parser    *)
(* of the Prolog-like knowledge base, the condition evaluator and the      *)
(* rule engine) and the classify calls made through                        *)
(* LoanClassificationSystem.classify.                                      *)
(*                                                                         *)
(* Text.  A Python string is modelled as the sequence of its tokens, with  *)
(* the white space between tokens left implicit (so str.strip() has        *)
(* nothing to remove and str.split() without argument yields the tokens).  *)
(* Punctuation the code splits on is a token of its own: "," ")" ":-" "."  *)
(* "[" "]".  TokPieces gives, for every token of the alphabet that has a   *)
(* separator inside it, the pieces str.split leaves of it.                 *)
(*                                                                         *)
(* Numbers.  float() values are kept in hundredths (0.92 is 92, 8.5 is     *)
(* 850, 31 is 3100); int() values are kept as they are.                    *)
(***************************************************************************)
EXTENDS Integers, Sequences, FiniteSets, TLC

VARIABLES
    pc,            \* "new" | "parsing" | "ready": position in __init__/_parse_prolog_rules
    file,          \* what open(self.prolog_file_path) finds: "ok" | "missing" | "unreadable"
    lines,         \* lines = f.readlines(), each line already line.strip()-ed
    i,             \* index of the line the for loop is about to process
    current_rule,  \* the dict current_rule
    in_rule,       \* the flag in_rule
    rules,         \* the local list rules
    self_rules,    \* the attribute self.rules
    load_error,    \* the exception class the except clauses reported, or "none"
    history        \* the classify calls made so far: <<record, outcome>>

vars == <<pc, file, lines, i, current_rule, in_rule, rules, self_rules, load_error, history>>

---------------------------------------------------------------------------
(* Bounds *)

MaxLines == 3

MaxCalls == 3

---------------------------------------------------------------------------
(* Strings as token sequences *)

\* The pieces str.split(sep) leaves of one token ("" is the empty string).
TokPieces(t, sep) ==
    IF t = sep THEN <<"", "">>
    ELSE IF sep = "=" /\ t = "=<" THEN <<"", "<">>
    ELSE IF sep = "=" /\ t = "<=" THEN <<"<", "">>
    ELSE IF sep = "member" /\ t = "member(" THEN <<"", "(">>
    ELSE <<t>>

NonEmpty(p) == IF p = "" THEN <<>> ELSE <<p>>

\* sub in s
Contains(s, sub) == \E k \in 1..Len(s) : Len(TokPieces(s[k], sub)) > 1

\* 'member(LoanType' in s
ContainsMemberLoanType(s) ==
    \E k \in 1..(Len(s) - 1) : s[k] = "member(" /\ s[k + 1] = "LoanType"

RECURSIVE SplitAcc(_, _, _, _)
SplitAcc(s, sep, done, cur) ==
    IF s = <<>> THEN Append(done, cur)
    ELSE LET p == TokPieces(Head(s), sep)
         IN  IF Len(p) = 1
             THEN SplitAcc(Tail(s), sep, done, Append(cur, Head(s)))
             ELSE SplitAcc(Tail(s), sep, Append(done, cur \o NonEmpty(p[1])), NonEmpty(p[2]))

\* s.split(sep): always at least one piece
Split(s, sep) == SplitAcc(s, sep, <<>>, <<>>)

Last(s) == s[Len(s)]

\* s.startswith(tok) / s.endswith(tok) for a one-token prefix or suffix
StartsWith(s, tok) == s # <<>> /\ s[1] = tok

EndsWith(s, tok) == s # <<>> /\ s[Len(s)] = tok

\* s[:-1]
DropLast(s) == SubSeq(s, 1, Len(s) - 1)

\* s.rstrip(',')
RECURSIVE RStripComma(_)
RStripComma(s) == IF EndsWith(s, ",") THEN RStripComma(DropLast(s)) ELSE s

LowerTok(t) ==
    CASE t = "Male" -> "male"
      [] t = "Female" -> "female"
      [] t = "Home" -> "home"
      [] t = "Personal" -> "personal"
      [] t = "Auto" -> "auto"
      [] t = "LoanTerm" -> "loanterm"
      [] t = "LoanType" -> "loantype"
      [] t = "Age" -> "age"
      [] t = "Sex" -> "sex"
      [] OTHER -> t

\* s.lower()
Lower(s) == [k \in 1..Len(s) |-> LowerTok(s[k])]

UpperTok(t) ==
    CASE t = "approved" -> "APPROVED"
      [] t = "rejected" -> "REJECTED"
      [] t = "LoanTerm" -> "LOANTERM"
      [] t = "LoanType" -> "LOANTYPE"
      [] t = "Age" -> "AGE"
      [] t = "auto" -> "AUTO"
      [] t = "home" -> "HOME"
      [] t = "abc" -> "ABC"
      [] OTHER -> t

\* s.upper()
Upper(s) == [k \in 1..Len(s) |-> UpperTok(s[k])]

\* The literals float() accepts, with their values in hundredths.
FloatTable ==
    ("0" :> 0) @@ ("1" :> 100) @@ ("2" :> 200) @@ ("3" :> 300) @@ ("31" :> 3100)
    @@ ("120" :> 12000) @@ ("0.92" :> 92) @@ ("1.5" :> 150) @@ ("8.5" :> 850)

\* The literals int() accepts.
IntTable ==
    ("0" :> 0) @@ ("1" :> 1) @@ ("2" :> 2) @@ ("3" :> 3) @@ ("31" :> 31) @@ ("120" :> 120)

\* float(s) returns a value (it raises ValueError otherwise)
IsFloat(s) == Len(s) = 1 /\ s[1] \in DOMAIN FloatTable

ParseFloat(s) == FloatTable[s[1]]

\* int(s) returns a value (it raises ValueError otherwise)
IsInt(s) == Len(s) = 1 /\ s[1] \in DOMAIN IntTable

ParseInt(s) == IntTable[s[1]]

---------------------------------------------------------------------------
(* dict *)

EmptyDict == [k \in {} |-> <<>>]

Has(d, k) == k \in DOMAIN d

\* d[k] = v
Put(d, k, v) == [x \in (DOMAIN d) \cup {k} |-> IF x = k THEN v ELSE d[x]]

---------------------------------------------------------------------------
(* The knowledge-base lines the file is made of *)

HeadArgs ==
    <<"classify_loan(", "Sex", ",", "Age", ",", "LoanTerm", ",", "NumAccounts", ",",
      "LoanType", ",", "LoanArea", ",">>

\* (blank line)
LBlank == <<>>

\* % Rule 1, Confidence 0.92, Samples 120
LMetaA == <<"%", "Rule", "1", ",", "Confidence", "0.92", ",", "Samples", "120">>

\* % Rule 2, Confidence high, Samples 120
LMetaBad == <<"%", "Rule", "2", ",", "Confidence", "high", ",", "Samples", "120">>

\* % Rule 3, Confidence 1.5, Samples 0
LMetaOut == <<"%", "Rule", "3", ",", "Confidence", "1.5", ",", "Samples", "0">>

\* classify_loan(Sex, Age, LoanTerm, NumAccounts, LoanType, LoanArea, approved) :- Age =< 31, LoanTerm =< 8.5.
LHeadA ==
    HeadArgs \o <<"approved", ")", ":-", "Age", "=<", "31", ",", "LoanTerm", "=<", "8.5", ".">>

\* classify_loan(Sex, Age, LoanTerm, NumAccounts, LoanType, LoanArea, approved) :-
LHeadOpen == HeadArgs \o <<"approved", ")", ":-">>

\* classify_loan(Sex, Age, LoanTerm, NumAccounts, LoanType, LoanArea, approved) :- member(LoanType, [home, auto]).
LHeadMember ==
    HeadArgs \o <<"approved", ")", ":-", "member(", "LoanType", ",", "[", "home", ",", "auto",
                  "]", ")", ".">>

\* Age =< 31,
LCondAge == <<"Age", "=<", "31", ",">>

\* LoanTerm <= 8.5.
LCondTerm == <<"LoanTerm", "<=", "8.5", ".">>

\* Age > abc.
LCondBad == <<"Age", ">", "abc", ".">>

\* .
LDot == <<".">>

\* classify_loan(Sex, Age, LoanTerm, NumAccounts, LoanType, LoanArea, rejected).
LFact == HeadArgs \o <<"rejected", ")", ".">>

KBLines ==
    {LBlank, LMetaA, LMetaBad, LMetaOut, LHeadA, LHeadOpen, LHeadMember, LCondAge, LCondTerm,
     LCondBad, LDot, LFact}

KnowledgeBases == UNION {[1..n -> KBLines] : n \in 0..MaxLines}

---------------------------------------------------------------------------
(* _parse_prolog_rules *)

line == lines[i]

\* [p for p in parts if kw in p][0]
FirstWith(parts, kw) ==
    parts[CHOOSE k \in 1..Len(parts) :
              /\ Contains(parts[k], kw)
              /\ \A j \in 1..(k - 1) : ~Contains(parts[j], kw)]

\* line.split(',')[-1].split(')')[0].strip()
DecisionPart(l) == Split(Last(Split(l, ",")), ")")[1]

\* (mutant) a handler that hands back the rules collected before the failure
ExceptReturnPartial(partial) == partial

\* What both except clauses return.
ExceptReturn(partial) == <<>>

Init ==
    /\ pc = "new"
    /\ \/ file = "ok" /\ lines \in KnowledgeBases
       \/ file \in {"missing", "unreadable"} /\ lines = <<>>
    /\ i = 1
    /\ current_rule = EmptyDict
    /\ in_rule = FALSE
    /\ rules = <<>>
    /\ self_rules = <<>>
    /\ load_error = "none"
    /\ history = <<>>

\* An exception inside the try block: the handler returns [] to __init__.
Raise(exc) ==
    /\ pc' = "ready"
    /\ self_rules' = ExceptReturn(rules)
    /\ load_error' = exc
    /\ UNCHANGED <<file, lines, i, current_rule, in_rule, rules, history>>

\* open() raises FileNotFoundError
OpenMissing ==
    /\ pc = "new"
    /\ file = "missing"
    /\ Raise("FileNotFoundError")

\* open() or readlines() raises another exception (PermissionError, UnicodeDecodeError, ...)
OpenFails ==
    /\ pc = "new"
    /\ file = "unreadable"
    /\ Raise("OSError")

\* lines = f.readlines(); current_rule = {}; in_rule = False
OpenOk ==
    /\ pc = "new"
    /\ file = "ok"
    /\ pc' = "parsing"
    /\ i' = 1
    /\ current_rule' = EmptyDict
    /\ in_rule' = FALSE
    /\ UNCHANGED <<file, lines, rules, self_rules, load_error, history>>

AtLine == pc = "parsing" /\ i <= Len(lines)

IsCommentOrEmpty(l) == l = <<>> \/ StartsWith(l, "%")

IsHead(l) == StartsWith(l, "classify_loan(") /\ Contains(l, ":-")

IsContinuation(l) == in_rule /\ l # <<>> /\ ~StartsWith(l, "classify_loan(")

IsFact(l) == StartsWith(l, "classify_loan(") /\ EndsWith(l, ".")

NextLine ==
    /\ i' = i + 1
    /\ UNCHANGED <<pc, file, lines, self_rules, load_error, history>>

\* lines 29-38
ParseComment ==
    /\ AtLine
    /\ IsCommentOrEmpty(line)
    /\ IF Contains(line, "Rule") /\ Contains(line, "Confidence") /\ Contains(line, "Samples")
       THEN LET parts == Split(line, ",")
                confidence_str == FirstWith(parts, "Confidence")
                samples_str == FirstWith(parts, "Samples")
                conf_tok == <<Last(confidence_str)>>
                samp_tok == <<Last(samples_str)>>
            IN  IF IsFloat(conf_tok) /\ IsInt(samp_tok)
                THEN /\ current_rule' =
                            Put(Put(current_rule, "confidence", ParseFloat(conf_tok)),
                                "samples", ParseInt(samp_tok))
                     /\ UNCHANGED <<in_rule, rules>>
                     /\ NextLine
                ELSE Raise("ValueError")
       ELSE /\ UNCHANGED <<current_rule, in_rule, rules>>
            /\ NextLine

\* The value of current_rule['conditions'] a head line sets (lines 47-54).
HeadConditions(l) ==
    LET conditions_part == Split(l, ":-")[2]
    IN  IF conditions_part # <<>> /\ ~EndsWith(conditions_part, ".")
        THEN <<conditions_part>>
        ELSE IF EndsWith(conditions_part, ".")
             THEN <<DropLast(conditions_part)>>
             ELSE <<>>

\* lines 41-54
ParseHead ==
    /\ AtLine
    /\ ~IsCommentOrEmpty(line)
    /\ IsHead(line)
    /\ in_rule' = TRUE
    /\ current_rule' =
           Put(Put(current_rule, "decision", DecisionPart(line)),
               "conditions", HeadConditions(line))
    /\ UNCHANGED rules
    /\ NextLine

\* (mutant) the default confidence assigned without the 'confidence' not in current_rule test
WithDefaultsAlways(d) ==
    LET d1 == Put(d, "confidence", 100)
    IN  IF Has(d1, "samples") THEN d1 ELSE Put(d1, "samples", 1)

\* current_rule with the defaults of lines 64-67 filled in
WithDefaults(d) ==
    LET d1 == IF Has(d, "confidence") THEN d ELSE Put(d, "confidence", 100)
    IN  IF Has(d1, "samples") THEN d1 ELSE Put(d1, "samples", 1)

\* lines 57-75
ParseContinue ==
    /\ AtLine
    /\ ~IsCommentOrEmpty(line)
    /\ ~IsHead(line)
    /\ IsContinuation(line)
    /\ LET withConds == IF Has(current_rule, "conditions")
                        THEN current_rule
                        ELSE Put(current_rule, "conditions", <<>>)
       IN  IF EndsWith(line, ".")
           THEN LET appended == IF line # <<".">>
                                THEN Put(withConds, "conditions",
                                         Append(withConds["conditions"], DropLast(line)))
                                ELSE withConds
                IN  /\ rules' = Append(rules, WithDefaults(appended))
                    /\ current_rule' = EmptyDict
                    /\ in_rule' = FALSE
           ELSE /\ current_rule' =
                       Put(withConds, "conditions", Append(withConds["conditions"], line))
                /\ UNCHANGED <<in_rule, rules>>
    /\ NextLine

\* The rule a fact line appends (lines 79-85).
FactRule(l, staged) ==
    [decision |-> DecisionPart(l),
     conditions |-> <<>>,
     confidence |-> IF Has(staged, "confidence") THEN staged["confidence"] ELSE 100,
     samples |-> IF Has(staged, "samples") THEN staged["samples"] ELSE 1]

\* lines 78-86
ParseFact ==
    /\ AtLine
    /\ ~IsCommentOrEmpty(line)
    /\ ~IsHead(line)
    /\ ~IsContinuation(line)
    /\ IsFact(line)
    /\ rules' = Append(rules, FactRule(line, current_rule))
    /\ current_rule' = EmptyDict
    /\ UNCHANGED in_rule
    /\ NextLine

\* A line no branch of the loop body takes.
ParseSkip ==
    /\ AtLine
    /\ ~IsCommentOrEmpty(line)
    /\ ~IsHead(line)
    /\ ~IsContinuation(line)
    /\ ~IsFact(line)
    /\ UNCHANGED <<current_rule, in_rule, rules>>
    /\ NextLine

\* line 95: return rules; line 12: self.rules = ...
ParseReturn ==
    /\ pc = "parsing"
    /\ i > Len(lines)
    /\ pc' = "ready"
    /\ self_rules' = rules
    /\ UNCHANGED <<file, lines, i, current_rule, in_rule, rules, load_error, history>>

---------------------------------------------------------------------------
(* _evaluate_condition *)

\* (sex, age, loan_term, num_accounts, loan_type, loan_area) of Scenario A
RecA ==
    [sex |-> "Male", age |-> 28, loan_term |-> 5, num_accounts |-> 3, loan_type |-> "Home",
     loan_area |-> 100]

\* the record of Scenario B
RecB == [RecA EXCEPT !.age = 40]

\* a long personal loan
RecC == [RecA EXCEPT !.sex = "Female", !.loan_term = 10, !.loan_type = "Personal"]

Records == {RecA, RecB, RecC}

Bool(b) == IF b THEN "true" ELSE "false"

\* The numeric branches: value <= threshold, value > threshold, or fall through to
\* the final return True.  float() of a malformed literal raises ValueError.
Threshold(condition, value) ==
    IF Contains(condition, "<=")
    THEN LET lit == Split(condition, "<=")[2]
         IN  IF IsFloat(lit) THEN Bool(value * 100 <= ParseFloat(lit)) ELSE "ValueError"
    ELSE IF Contains(condition, ">")
         THEN LET lit == Split(condition, ">")[2]
              IN  IF IsFloat(lit) THEN Bool(value * 100 > ParseFloat(lit)) ELSE "ValueError"
         ELSE "true"

\* condition.split('=')[1].strip().lower() == value.lower()
Equals(condition, value) == Bool(Lower(<<value>>) = Lower(Split(condition, "=")[2]))

\* loan_type.lower() in [t.strip().lower() for t in list_part.split(',')]
Member(condition, value) ==
    IF Len(Split(condition, "[")) < 2
    THEN "IndexError"
    ELSE LET list_part == Split(Split(condition, "[")[2], "]")[1]
             parts == Split(list_part, ",")
             allowed_types == {Lower(parts[k]) : k \in 1..Len(parts)}
         IN  Bool(Lower(<<value>>) \in allowed_types)

\* "true" | "false" for the value returned, or the exception raised
EvaluateCondition(cond, rec) ==
    LET condition == RStripComma(cond)
    IN  IF Contains(condition, "Age") THEN Threshold(condition, rec.age)
        ELSE IF Contains(condition, "Sex")
             THEN IF Contains(condition, "=") THEN Equals(condition, rec.sex) ELSE "true"
        ELSE IF Contains(condition, "LoanTerm") THEN Threshold(condition, rec.loan_term)
        ELSE IF Contains(condition, "NumAccounts") THEN Threshold(condition, rec.num_accounts)
        ELSE IF Contains(condition, "LoanType")
             THEN IF Contains(condition, "=") /\ ~Contains(condition, "member")
                  THEN Equals(condition, rec.loan_type)
                  ELSE IF ContainsMemberLoanType(condition)
                       THEN Member(condition, rec.loan_type)
                       ELSE "true"
        ELSE IF Contains(condition, "LoanArea") THEN Threshold(condition, rec.loan_area)
        ELSE "true"

---------------------------------------------------------------------------
(* classify *)

\* The inner loop of lines 162-167: stops at the first condition that is false
\* (break) or raises.
RECURSIVE AllConditionsMet(_, _)
AllConditionsMet(conditions, rec) ==
    IF conditions = <<>> THEN "true"
    ELSE LET r == EvaluateCondition(Head(conditions), rec)
         IN  IF r = "true" THEN AllConditionsMet(Tail(conditions), rec) ELSE r

\* The loop of lines 159-170: matching_rules, or the first exception raised.
RECURSIVE MatchLoop(_, _, _)
MatchLoop(rs, rec, matching_rules) ==
    IF rs = <<>> THEN [raised |-> "none", matching |-> matching_rules]
    ELSE LET r == AllConditionsMet(Head(rs)["conditions"], rec)
         IN  IF r = "true" THEN MatchLoop(Tail(rs), rec, Append(matching_rules, Head(rs)))
             ELSE IF r = "false" THEN MatchLoop(Tail(rs), rec, matching_rules)
             ELSE [raised |-> r, matching |-> matching_rules]

\* max(matching_rules, key=lambda r: r['confidence']): the first of the maximal ones
BestRule(matching_rules) ==
    matching_rules[CHOOSE k \in 1..Len(matching_rules) :
        /\ \A j \in 1..Len(matching_rules) :
               matching_rules[j]["confidence"] <= matching_rules[k]["confidence"]
        /\ \A j \in 1..(k - 1) :
               matching_rules[j]["confidence"] < matching_rules[k]["confidence"]]

Fallback ==
    [decision |-> <<"REJECTED">>, confidence |-> 50,
     reasoning |-> "No Prolog rule matched - default rejection"]

\* What classify(record) does on the rule list rs: the dict it returns, or
\* [raised |-> the exception it raises].
ClassifyOutcome(rs, rec) ==
    LET m == MatchLoop(rs, rec, <<>>)
    IN  IF m.raised # "none" THEN [raised |-> m.raised]
        ELSE IF m.matching = <<>> THEN Fallback
        ELSE LET best_rule == BestRule(m.matching)
             IN  IF ~Has(best_rule, "decision") THEN [raised |-> "KeyError"]
                 ELSE [decision |-> Upper(best_rule["decision"]),
                       confidence |-> best_rule["confidence"],
                       reasoning |-> "Prolog rule matched"]

\* (mutant) classify keeping only the matching rules in self.rules
ClassifyFiltersRules(rec) ==
    /\ pc = "ready"
    /\ Len(history) < MaxCalls
    /\ history' = Append(history, [record |-> rec, outcome |-> ClassifyOutcome(self_rules, rec)])
    /\ self_rules' = MatchLoop(self_rules, rec, <<>>).matching
    /\ UNCHANGED <<pc, file, lines, i, current_rule, in_rule, rules, load_error>>

\* LoanClassificationSystem.classify -> PrologLoanClassifier.classify
Classify(rec) ==
    /\ pc = "ready"
    /\ Len(history) < MaxCalls
    /\ history' = Append(history, [record |-> rec, outcome |-> ClassifyOutcome(self_rules, rec)])
    /\ UNCHANGED <<pc, file, lines, i, current_rule, in_rule, rules, self_rules, load_error>>

Next ==
    \/ OpenMissing
    \/ OpenFails
    \/ OpenOk
    \/ ParseComment
    \/ ParseHead
    \/ ParseContinue
    \/ ParseFact
    \/ ParseSkip
    \/ ParseReturn
    \/ \E rec \in Records : Classify(rec)

Spec == Init /\ [][Next]_vars

---------------------------------------------------------------------------
(* Properties *)

Calls == {history[k] : k \in 1..Len(history)}

Returned(outcome) == Has(outcome, "decision")

\* A rule matches a record when every one of its conditions evaluates to true.
Matches(rule, rec) ==
    \A k \in 1..Len(rule["conditions"]) : EvaluateCondition(rule["conditions"][k], rec) = "true"

MatchingIndexes(rs, rec) == {k \in 1..Len(rs) : Matches(rs[k], rec)}

\* The outcome is the result made from the rule at index k of rs.
IsResultOf(outcome, rs, k) ==
    /\ Returned(outcome)
    /\ Has(rs[k], "decision")
    /\ outcome.decision = Upper(rs[k]["decision"])
    /\ outcome.confidence = rs[k]["confidence"]
    /\ outcome.reasoning = "Prolog rule matched"

\* Index k is the earliest of the maximal-confidence indexes of M.
EarliestMax(rs, M, k) ==
    /\ k \in M
    /\ \A j \in M : rs[j]["confidence"] <= rs[k]["confidence"]
    /\ \A j \in M : j < k => rs[j]["confidence"] < rs[k]["confidence"]

\* C1: for every RuleSet and every record, classify returns the fallback
\* (REJECTED, 0.5) exactly when no rule matches, and otherwise the result of the
\* matching rule of maximal confidence that is earliest in parse order.
C1_ClassifySelectsBest ==
    \A h \in Calls :
        LET M == MatchingIndexes(self_rules, h.record)
        IN  IF M = {}
            THEN h.outcome = Fallback
            ELSE \E k \in M : EarliestMax(self_rules, M, k) /\ IsResultOf(h.outcome, self_rules, k)

\* The selection of C1 on the calls that return a result.
ReturnedCallsSelectBest ==
    \A h \in Calls :
        Returned(h.outcome) =>
            LET M == MatchingIndexes(self_rules, h.record)
            IN  IF M = {}
                THEN h.outcome = Fallback
                ELSE \E k \in M :
                         EarliestMax(self_rules, M, k) /\ IsResultOf(h.outcome, self_rules, k)

\* A rule clause written on one line: head, ":-", conditions and "." .
IsSingleLineRule(l) == IsHead(l) /\ EndsWith(l, ".") /\ Len(Split(l, ":-")[2]) > 1

Processed(k) == pc = "parsing" /\ i = k + 1

\* C2: a rule clause written on a single line completes on that line: once the
\* parser has processed it, the RuleSet holds a Rule for it with the staged
\* confidence and the parser is outside any rule; for the knowledge base of
\* Scenario A the RuleSet has exactly one rule, which classifies the record of
\* Scenario A as APPROVED with confidence 0.92.
C2_SingleLineRuleCompletes ==
    /\ \A k \in 1..Len(lines) :
           Processed(k) /\ IsSingleLineRule(lines[k]) =>
               /\ ~in_rule
               /\ rules # <<>>
               /\ Last(rules)["conditions"] = HeadConditions(lines[k])
    /\ pc = "ready" /\ lines = <<LMetaA, LHeadA>> =>
           /\ Len(self_rules) = 1
           /\ \A h \in Calls :
                  h.record = RecA =>
                      /\ Returned(h.outcome)
                      /\ h.outcome.decision = <<"APPROVED">>
                      /\ h.outcome.confidence = 92

\* The text between the last comma and the closing parenthesis of the part of
\* the line before the implication separator.
HeadLhsDecision(l) == Split(Last(Split(Split(l, ":-")[1], ",")), ")")[1]

\* C3: for every rule-head line, the decision the parser records is the text
\* between the last comma and the closing parenthesis of the head's left-hand
\* side, whatever follows the implication separator on that line.
C3_DecisionFromHeadLhs ==
    \A k \in 1..Len(lines) :
        Processed(k) /\ IsHead(lines[k]) =>
            /\ Has(current_rule, "decision")
            /\ current_rule["decision"] = HeadLhsDecision(lines[k])

\* The condition text starts with: Age =< 31
IsAgeAtMost31(c) == Len(c) >= 3 /\ SubSeq(c, 1, 3) = <<"Age", "=<", "31">>

\* C4: the condition "Age =< 31" is a numeric threshold on the record's age:
\* true for age 28, false for age 40, so a rule containing it is not among the
\* matches of the age-40 record.
C4_AgeConditionIsThreshold ==
    \A h \in Calls :
        \A k \in 1..Len(self_rules) :
            \A n \in 1..Len(self_rules[k]["conditions"]) :
                LET c == self_rules[k]["conditions"][n]
                IN  IsAgeAtMost31(c) =>
                        /\ EvaluateCondition(c, h.record) = Bool(h.record.age <= 31)
                        /\ h.record.age > 31 => ~Matches(self_rules[k], h.record)

\* A well-formed, complete clause on one line: a fact.
IsCompleteFact(l) == IsFact(l) /\ ~Contains(l, ":-")

\* C5: malformed lines are skipped, not rejected: the Rules of the well-formed
\* completed clauses of the text are in the RuleSet whatever malformed lines
\* occur elsewhere (here: every fact line of the text has its Rule in the
\* RuleSet once the knowledge base is loaded).
C5_MalformedLinesAreSkipped ==
    pc = "ready" /\ file = "ok" =>
        \A k \in 1..Len(lines) :
            IsCompleteFact(lines[k]) =>
                \E n \in 1..Len(self_rules) :
                    /\ Has(self_rules[n], "decision")
                    /\ self_rules[n]["decision"] = DecisionPart(lines[k])
                    /\ self_rules[n]["conditions"] = <<>>

\* C6: classify returns a ClassificationResult (decision, confidence,
\* reasoning) for every record and every RuleSet the parser can produce.
C6_ClassifyAlwaysReturns ==
    \A h \in Calls :
        /\ Returned(h.outcome)
        /\ Has(h.outcome, "confidence")
        /\ Has(h.outcome, "reasoning")

\* C7: when the knowledge-base source is missing or any other failure occurs
\* while loading, construction completes with an empty RuleSet, and against an
\* empty RuleSet every classify call returns REJECTED with confidence 0.5.
C7_LoadFailureGivesEmptyRuleSet ==
    /\ file # "ok" /\ pc # "new" => pc = "ready" /\ load_error # "none"
    /\ load_error # "none" => pc = "ready" /\ self_rules = <<>>
    /\ self_rules = <<>> =>
           \A h \in Calls :
               /\ Returned(h.outcome)
               /\ h.outcome.decision = <<"REJECTED">>
               /\ h.outcome.confidence = 50

\* Witness of C7: a load that failed after rules had been collected, followed
\* by a classify call.
C7_Witness ==
    /\ load_error = "ValueError"
    /\ rules # <<>>
    /\ history # <<>>
    /\ history[1].outcome = Fallback

\* C8: after construction the RuleSet is read-only: no step changes it, and
\* within a run every call with the same record has the same outcome, whichever
\* calls came before it.
C8_RuleSetReadOnly ==
    [][pc = "ready" =>
           /\ self_rules' = self_rules
           /\ \A j, k \in 1..Len(history') :
                  history'[j].record = history'[k].record =>
                      history'[j].outcome = history'[k].outcome]_vars

\* Witness of C8: a record classified, then another, then the first again,
\* against a RuleSet that tells them apart.
C8_Witness ==
    /\ Len(history) = 3
    /\ history[1].record = history[3].record
    /\ history[2].record # history[1].record
    /\ history[2].outcome # history[1].outcome
    /\ Returned(history[1].outcome)
    /\ Len(self_rules) >= 2

InUnitRange(r) == 0 <= r["confidence"] /\ r["confidence"] <= 100 /\ r["samples"] >= 1

IsMetadata(l) ==
    /\ IsCommentOrEmpty(l)
    /\ Contains(l, "Rule") /\ Contains(l, "Confidence") /\ Contains(l, "Samples")
    /\ IsFloat(<<Last(FirstWith(Split(l, ","), "Confidence"))>>)
    /\ IsInt(<<Last(FirstWith(Split(l, ","), "Samples"))>>)

MetadataOf(l) ==
    <<ParseFloat(<<Last(FirstWith(Split(l, ","), "Confidence"))>>),
      ParseInt(<<Last(FirstWith(Split(l, ","), "Samples"))>>)>>

\* The (confidence, sample count) pairs of the metadata comments read so far.
MetadataRead ==
    {MetadataOf(lines[k]) : k \in {n \in 1..Len(lines) : n < i /\ pc # "new" /\ IsMetadata(lines[n])}}

CarriesMetadataAsWritten(r) ==
    <<r["confidence"], r["samples"]>> \in ({<<100, 1>>} \cup MetadataRead)

C10_CollectingHasDecision ==
    /\ pc = "parsing" /\ in_rule => Has(current_rule, "decision")
    /\ \A k \in 1..Len(rules) : Has(rules[k], "decision")
    /\ \A h \in Calls : h.outcome # [raised |-> "KeyError"]

===========================================================================
